---- MODULE Spec2Model ----
(***************************************************************************)
(* A model of jrockway/display: package pages (the Display snapshot, its   *)
(* five fetch jobs, update, render, UpdateOnce), the refresh loop of main, *)
(* and package mesonet (the decoding of a data variable).                  *)
(*                                                                         *)
(* float64 values are modelled exactly as rationals with the three IEEE    *)
(* specials: [k |-> "fin", n |-> num, d |-> den], +Inf/-Inf and NaN.       *)
(* time.Time values are whole minutes; 0 is the zero time.Time.            *)
(***************************************************************************)
EXTENDS Integers, Sequences, FiniteSets, TLC

\* ------------------------------------------------------------------ bounds
\* Number of refresh cycles the loop of main is followed for.
MaxCycles == 2
\* How many things go wrong in a run: a fetch that fails on its own or a
\* deadline that passes before update has returned.
MaxFaults == 2
\* The same, in the runs that follow the loop over several cycles.
LoopFaults == 1
\* Longest series a weather-station response carries.
MaxLen == 2
\* Largest raw sample value of a weather-station response.
MaxSample == 1
\* How many minutes the clock is followed past its start.
MaxTicks == 6
\* Largest width and height of an image enlargedImage is applied to.
MaxDim == 2
\* Largest factor enlargedImage is called with, besides ServeLargePNG's 16.
MaxEnlarge == 3
\* The snapshot values render is applied to run from -MaxHalves/2 to
\* MaxHalves/2 in steps of 1/2.
MaxHalves == 2
MaxHeight == 40

\* ------------------------------------------------------- program constants
\* time.Since(lastPoint) < 6*time.Minute
SixMinutes == 6
\* OutputConfig defaults
Width == 64
Height == 32

\* ----------------------------------------------------------------- floats
Fin(x) == [k |-> "fin", n |-> x, d |-> 1]
PosInf == [k |-> "inf", n |-> 1, d |-> 0]
NegInf == [k |-> "inf", n |-> -1, d |-> 0]
NaN == [k |-> "nan", n |-> 0, d |-> 0]

\* a / float64(b) for integer-valued a and an int b, as IEEE 754 divides.
FloatDiv(a, b) ==
    IF b = 0
    THEN (IF a > 0 THEN PosInf ELSE IF a < 0 THEN NegInf ELSE NaN)
    ELSE IF b > 0 THEN [k |-> "fin", n |-> a, d |-> b]
                  ELSE [k |-> "fin", n |-> -a, d |-> -b]

\* ------------------------------------------------------------------- jobs
\* The five run(...) calls of update, in order, by their op strings.
Jobs == << "get temperature", "get last hour temperature",
           "get relative humidity", "get last hour relative humidity",
           "get outdoor temperature" >>

JobNames == {Jobs[k] : k \in 1..Len(Jobs)}

Outdoor == "get outdoor temperature"

InfluxJobs == JobNames \ {Outdoor}

\* The field each time-series job passes to queryOneInflux as its target.
Target(j) ==
    CASE j = "get temperature" -> "Temperature"
      [] j = "get last hour temperature" -> "LastHourTemperature"
      [] j = "get relative humidity" -> "RelativeHumidity"
      [] j = "get last hour relative humidity" -> "LastHourRelativeHumidity"

Cycles == 1..MaxCycles

\* A job goroutine: the cycle that started it and its op.
Goroutines == Cycles \X JobNames

\* The zero time.Time and the clock's first reading (long after the zero time).
ZeroTime == 0
StartNow == SixMinutes + 2

VARIABLES
    d,        \* the Display: its snapshot fields, screen and image
    now,      \* the wall clock, in minutes
    pc,       \* the refresh goroutine of main: "loop", "select", "render"
    cycle,    \* number of the cycle the loop of main is in (0: none yet)
    ctxDone,  \* whether the current cycle's ctx is done (expired or cancelled)
    nq,       \* update's nq
    i,        \* update's loop index
    errs,     \* update's errs
    ret,      \* what UpdateOnce returned to main in this cycle
    job,      \* each job goroutine's position
    res,      \* the outdoor goroutine's res, per cycle
    faults,   \* how many fetches failed on their own and deadlines passed
    mu,       \* the Display's RWMutex: its writer and its readers
    http      \* the response the last request to a handler was answered with

vars == << d, now, pc, cycle, ctxDone, nq, i, errs, ret, job, res, faults,
           mu, http >>

NoError == [nil |-> TRUE, n |-> 0, strs |-> << >>]
NoResult == [tair |-> << >>, time |-> << >>]

\* ctx.Err() once the context is done
DeadlineExceeded == "context deadline exceeded"

\* The sync.RWMutex embedded in Display: no writer, no readers.
NoHolder == << 0, "none" >>
Unlocked == [w |-> NoHolder, r |-> {}]

\* No request has been answered yet.
NoResponse == [handler |-> "none"]

\* A nil *image.RGBA
NilImage == [nil |-> TRUE, w |-> 0, h |-> 0, lines |-> << >>]

\* Display after New: zero values, no screen, no image; outputConfig is the
\* one main passes, with the flags' default values.
NewDisplay ==
    [ outputConfig |-> [Width |-> Width, Height |-> Height],
      Temperature |-> Fin(0), LastHourTemperature |-> Fin(0),
      RelativeHumidity |-> Fin(0), LastHourRelativeHumidity |-> Fin(0),
      OutdoorTemperature |-> Fin(0), LastHourOutdoorTemperature |-> Fin(0),
      MesonetLastData |-> ZeroTime,
      screen |-> << >>, image |-> NilImage ]

Init ==
    /\ d = NewDisplay
    /\ now = StartNow
    /\ pc = "loop"
    /\ cycle = 0
    /\ ctxDone = FALSE
    /\ nq = 0
    /\ i = 0
    /\ errs = << >>
    /\ ret = NoError
    /\ job = [g \in Goroutines |-> "none"]
    /\ res = [c \in Cycles |-> NoResult]
    /\ faults = 0
    /\ mu = Unlocked
    /\ http = NoResponse

\* The context a goroutine of cycle c holds is done: main cancelled it after
\* UpdateOnce returned (every earlier cycle's), or its deadline passed.
CtxDone(c) == c < cycle \/ ctxDone

\* -------------------------------------------------------- package mesonet
\* One element of a raw JSON array: a number (float64) or anything else.
RawElems == {[num |-> TRUE, v |-> x] : x \in 0..MaxSample}
              \cup {[num |-> FALSE, v |-> 0]}

RawSeries(len) == UNION {[1..m -> RawElems] : m \in 1..len}

\* DataVar.UnmarshalJSON for a variable that is not "time": raw is
\* [scale |-> Attrs.ScaleFactor, data |-> raw.Data], data being empty or
\* holding the series as its first element. The result is v.FloatData.
UnmarshalFloatData(raw) ==
    IF Len(raw.data) = 0 THEN << >>
    ELSE LET first == raw.data[1] IN
         IF first[1].num
         THEN [x \in 1..Len(first) |->
                 IF first[x].num THEN first[x].v * raw.scale ELSE 0]
         ELSE << >>

\* What mesonet.Do hands back on success:
\* res.Response.DataVars["tair"].FloatData and Coords["time"].TimeData.
Result(raw, times) == [tair |-> UnmarshalFloatData(raw), time |-> times]

\* ------------------------------------------- updateOutdoorTemperature loop
\* A round of the loop without its `if t != 0`: every sample is taken.
LoopBodyNoZeroCheck(acc, t, update) ==
    [ n |-> acc.n,
      sum |-> acc.sum + t,
      last |-> t,
      lastUpdate |-> IF update # ZeroTime THEN update ELSE acc.lastUpdate ]

\* One round of `for i, t := range tair`.
LoopBody(acc, t, update) ==
    IF t # 0
    THEN [ n |-> acc.n,
           sum |-> acc.sum + t,
           last |-> t,
           lastUpdate |-> IF update # ZeroTime THEN update ELSE acc.lastUpdate ]
    ELSE acc

RECURSIVE Loop(_, _, _, _)
Loop(acc, tair, time, x) ==
    IF x > Len(tair) THEN acc
    ELSE Loop(LoopBody(acc, tair[x], time[x]), tair, time, x + 1)

\* n, sum, last and lastUpdate when the loop is left.
Totals(r) ==
    Loop([n |-> 0, sum |-> 0, last |-> 0, lastUpdate |-> ZeroTime],
         r.tair, r.time, 1)

\* --------------------------------------------------------- job goroutines
\* Positions of a job goroutine:
\*   "none"    not started          "check"   outdoor: before the rate check
\*   "rlocked" outdoor: holds d.RLock() for the read of MesonetLastData
\*   "query"   network call pending "lock"    call succeeded, before d.Lock()
\*   "locked"  holds d.Lock(), before the assignment
\*   "sendErr" f returned an error, blocked in doneCh <- err
\*   "sendNil" blocked in doneCh <- nil
\*   "exit"    returned

\* d.influxClient.Query and the reading of its first record succeed.
QueryOK(c, j) ==
    /\ j \in InfluxJobs
    /\ job[<<c, j>>] = "query"
    /\ ~CtxDone(c)
    /\ job' = [job EXCEPT ![<<c, j>>] = "lock"]
    /\ UNCHANGED << d, now, pc, cycle, ctxDone, nq, i, errs, ret, res, faults, mu, http >>

\* The value the time-series source reports to a query made in cycle c.
InfluxValue(c) == Fin(c)

\* queryOneInflux assigning to the target before it returns its error.
QueryFailAfterAssign(c, j) ==
    /\ j \in InfluxJobs
    /\ job[<<c, j>>] = "query"
    /\ d' = [d EXCEPT ![Target(j)] = InfluxValue(c)]
    /\ job' = [job EXCEPT ![<<c, j>>] = "sendErr"]
    /\ faults' = faults + 1
    /\ UNCHANGED << now, pc, cycle, ctxDone, nq, i, errs, ret, res, mu, http >>

\* queryOneInflux returns an error: the query failed (also: ctx is done),
\* no rows, a nil record, or a value of the wrong type. Nothing is assigned.
QueryFail(c, j) ==
    /\ j \in InfluxJobs
    /\ job[<<c, j>>] = "query"
    /\ job' = [job EXCEPT ![<<c, j>>] = "sendErr"]
    /\ faults' = faults + 1
    /\ UNCHANGED << d, now, pc, cycle, ctxDone, nq, i, errs, ret, res, mu, http >>

\* d.Lock() of a job goroutine: granted when nobody holds the mutex.
Lock(c, j) ==
    /\ job[<<c, j>>] = "lock"
    /\ mu = Unlocked
    /\ mu' = [mu EXCEPT !.w = <<c, j>>]
    /\ job' = [job EXCEPT ![<<c, j>>] = "locked"]
    /\ UNCHANGED << d, now, pc, cycle, ctxDone, nq, i, errs, ret, res, faults,
                    http >>

\* tval.Elem().Set(val); d.Unlock(); return nil
Assign(c, j) ==
    /\ j \in InfluxJobs
    /\ job[<<c, j>>] = "locked"
    /\ d' = [d EXCEPT ![Target(j)] = InfluxValue(c)]
    /\ mu' = [mu EXCEPT !.w = NoHolder]
    /\ job' = [job EXCEPT ![<<c, j>>] = "sendNil"]
    /\ UNCHANGED << now, pc, cycle, ctxDone, nq, i, errs, ret, res, faults,
                    http >>

\* A rate check that takes 6*time.Second, under a minute, for the interval.
FreshSixSeconds(lastPoint) == now - lastPoint < 1

\* time.Since(lastPoint) < 6*time.Minute
Fresh(lastPoint) == now - lastPoint < SixMinutes

\* d.RLock() of updateOutdoorTemperature: granted when there is no writer.
RLock(c) ==
    /\ job[<<c, Outdoor>>] = "check"
    /\ mu.w = NoHolder
    /\ mu' = [mu EXCEPT !.r = @ \cup {<<c, Outdoor>>}]
    /\ job' = [job EXCEPT ![<<c, Outdoor>>] = "rlocked"]
    /\ UNCHANGED << d, now, pc, cycle, ctxDone, nq, i, errs, ret, res, faults,
                    http >>

\* The rate check written with `defer d.RUnlock()`: the read lock is kept.
RateCheckDeferUnlock(c) ==
    /\ job[<<c, Outdoor>>] = "rlocked"
    /\ job' = [job EXCEPT ![<<c, Outdoor>>] =
                 IF Fresh(d.MesonetLastData) THEN "sendNil" ELSE "query"]
    /\ UNCHANGED << d, now, pc, cycle, ctxDone, nq, i, errs, ret, res, faults,
                    mu, http >>

\* updateOutdoorTemperature up to the rate check: lastPoint is read, the
\* read lock released; a fresh lastPoint makes the job return nil at once.
RateCheck(c) ==
    /\ job[<<c, Outdoor>>] = "rlocked"
    /\ mu' = [mu EXCEPT !.r = @ \ {<<c, Outdoor>>}]
    /\ job' = [job EXCEPT ![<<c, Outdoor>>] =
                 IF Fresh(d.MesonetLastData) THEN "sendNil" ELSE "query"]
    /\ UNCHANGED << d, now, pc, cycle, ctxDone, nq, i, errs, ret, res, faults,
                    http >>

\* mesonet.Do succeeds with one of the given responses; no data points is
\* an error.
MesonetOK(c, responses) ==
    /\ job[<<c, Outdoor>>] = "query"
    /\ ~CtxDone(c)
    /\ \E r \in responses :
         /\ Len(r.time) = Len(r.tair) \/ Len(r.tair) = 0
         /\ res' = [res EXCEPT ![c] = r]
         /\ job' = [job EXCEPT ![<<c, Outdoor>>] =
                      IF Len(r.tair) = 0 THEN "sendErr" ELSE "lock"]
    /\ UNCHANGED << d, now, pc, cycle, ctxDone, nq, i, errs, ret, faults, mu, http >>

\* mesonet.Do fails: transport error (also: ctx is done), non-OK status,
\* undecodable body, or a response marked unsuccessful.
MesonetFail(c) ==
    /\ job[<<c, Outdoor>>] = "query"
    /\ job' = [job EXCEPT ![<<c, Outdoor>>] = "sendErr"]
    /\ faults' = faults + 1
    /\ UNCHANGED << d, now, pc, cycle, ctxDone, nq, i, errs, ret, res, mu, http >>

\* The three assignments, from the totals of the loop over tair, and the
\* deferred d.Unlock().
WriteOutdoor(c) ==
    /\ job[<<c, Outdoor>>] = "locked"
    /\ LET t == Totals(res[c]) IN
         d' = [d EXCEPT !.OutdoorTemperature = Fin(t.last),
                        !.LastHourOutdoorTemperature = FloatDiv(t.sum, t.n),
                        !.MesonetLastData = t.lastUpdate]
    /\ mu' = [mu EXCEPT !.w = NoHolder]
    /\ job' = [job EXCEPT ![<<c, Outdoor>>] = "sendNil"]
    /\ UNCHANGED << now, pc, cycle, ctxDone, nq, i, errs, ret, res, faults,
                    http >>

\* ------------------------------------------------------------------ render
Half == [k |-> "fin", n |-> 1, d |-> 2]
One == Fin(1)
FloatNeg(a) == [a EXCEPT !.n = -a.n]

\* a - b on float64
FloatSub(a, b) ==
    IF a.k = "nan" \/ b.k = "nan" THEN NaN
    ELSE IF a.k = "inf"
         THEN (IF b.k = "inf" /\ b.n = a.n THEN NaN ELSE a)
    ELSE IF b.k = "inf" THEN FloatNeg(b)
    ELSE [k |-> "fin", n |-> a.n * b.d - b.n * a.d, d |-> a.d * b.d]

\* a < b on float64 (false whenever a NaN is involved)
FloatLess(a, b) ==
    IF a.k = "nan" \/ b.k = "nan" THEN FALSE
    ELSE IF a.k = "inf" THEN a.n < 0 /\ ~(b.k = "inf" /\ b.n < 0)
    ELSE IF b.k = "inf" THEN b.n > 0
    ELSE a.n * b.d < b.n * a.d

\* FloatLess with <= for <
FloatLessEq(a, b) ==
    IF a.k = "nan" \/ b.k = "nan" THEN FALSE
    ELSE IF a.k = "inf" THEN a.n < 0 \/ (b.k = "inf" /\ b.n > 0)
    ELSE IF b.k = "inf" THEN b.n > 0
    ELSE a.n * b.d <= b.n * a.d

\* The change byte with the thresholds themselves counted as a change.
ChangeAtThreshold(current, trailingMean, threshold) ==
    LET chg == FloatSub(current, trailingMean) IN
    IF FloatLessEq(chg, FloatNeg(threshold)) THEN 25
    ELSE IF FloatLessEq(threshold, chg) THEN 24
    ELSE 32

\* The change byte of render: 25 below -threshold, 24 above it, else ' '.
Change(current, trailingMean, threshold) ==
    LET chg == FloatSub(current, trailingMean) IN
    IF FloatLess(chg, FloatNeg(threshold)) THEN 25
    ELSE IF FloatLess(threshold, chg) THEN 24
    ELSE 32

RECURSIVE Digits(_)
\* The decimal digits of a natural number, as bytes.
Digits(x) == IF x < 10 THEN << 48 + x >> ELSE Append(Digits(x \div 10), 48 + (x % 10))

\* |a| * 10^prec rounded to the nearest integer, ties to even.
Scaled(a, prec) ==
    LET num == (IF a.n < 0 THEN -a.n ELSE a.n) * (IF prec = 1 THEN 10 ELSE 1)
        q == num \div a.d
        r2 == 2 * (num % a.d)
    IN IF r2 > a.d \/ (r2 = a.d /\ q % 2 = 1) THEN q + 1 ELSE q

\* fmt.Sprintf("%.1f", a) for prec = 1 and fmt.Sprintf("%.0f", a) for prec = 0
Sprintf(prec, a) ==
    IF a.k = "nan" THEN << 78, 97, 78 >>
    ELSE IF a.k = "inf"
         THEN (IF a.n > 0 THEN << 43, 73, 110, 102 >> ELSE << 45, 73, 110, 102 >>)
    ELSE LET s == Scaled(a, prec)
             sign == IF a.n < 0 THEN << 45 >> ELSE << >>
         IN IF prec = 1
            THEN sign \o Digits(s \div 10) \o << 46, 48 + (s % 10) >>
            ELSE sign \o Digits(s)

\* A screen that is made of the two written lines only.
ScreenOfTwoLines(dd) ==
    << Sprintf(1, dd.Temperature)
         \o << Change(dd.Temperature, dd.LastHourTemperature, Half), 32 >>
         \o Sprintf(0, dd.RelativeHumidity)
         \o << Change(dd.RelativeHumidity, dd.LastHourRelativeHumidity, Half) >>,
       Sprintf(1, dd.OutdoorTemperature)
         \o << Change(dd.OutdoorTemperature, dd.LastHourOutdoorTemperature, One) >> >>

\* int(math.Floor(float64(d.outputConfig.Height)/8.0))
ScreenLen(dd) == dd.outputConfig.Height \div 8

\* The values of line := i / 8 in the loop
\* for i := 0; i < d.outputConfig.Height; i += 8.
DrawIndexes(dd) ==
    {k \div 8 : k \in {k \in 0..(dd.outputConfig.Height - 1) : k % 8 = 0}}

\* The indexes render uses on d.screen when no sf.Draw fails: screen[0],
\* screen[1], and screen[line] for every line of the loop.
IndexesUsed(dd) == {0, 1} \cup DrawIndexes(dd)

\* One of them is not an index of the slice render made: the run panics
\* with "index out of range".
IndexOutOfRange(dd) == \E x \in IndexesUsed(dd) : x >= ScreenLen(dd)

\* What render makes of d.screen: the change bytes, and Height/8 lines of
\* which the first two are written.
Screen(dd) ==
    LET tempChange == Change(dd.Temperature, dd.LastHourTemperature, Half)
        humChange == Change(dd.RelativeHumidity, dd.LastHourRelativeHumidity, Half)
        outdoorTempChange ==
            Change(dd.OutdoorTemperature, dd.LastHourOutdoorTemperature, One)
        line0 == Sprintf(1, dd.Temperature) \o << tempChange >> \o << 32 >>
                   \o Sprintf(0, dd.RelativeHumidity) \o << humChange >>
        line1 == Sprintf(1, dd.OutdoorTemperature) \o << outdoorTempChange >>
    IN [x \in 1..ScreenLen(dd) |->
          IF x = 1 THEN line0 ELSE IF x = 2 THEN line1 ELSE << >>]

\* render, under d.Lock(), when every line is drawn: the new screen, and a
\* fresh image, holding the drawn lines, assigned to d.image.
render(dd) ==
    [dd EXCEPT !.screen = Screen(dd),
               !.image = [nil |-> FALSE, w |-> dd.outputConfig.Width,
                          h |-> dd.outputConfig.Height,
                          lines |-> Screen(dd)]]

\* render, under d.Lock(), when sf.Draw returns an error for a line: the
\* new screen is in place, render returns before d.image = img.
renderDrawError(dd) == [dd EXCEPT !.screen = Screen(dd)]

\* render, under d.Lock(), when an index is out of range: what was written
\* to the slice before the panic stays, d.image is not assigned.
renderPanic(dd) == [dd EXCEPT !.screen = Screen(dd)]

\* ------------------------------------------------------------------ update
\* main: ctx with the interval as timeout; UpdateOnce; update makes doneCh
\* and calls run five times, each starting its goroutine.
StartCycle ==
    /\ pc = "loop"
    /\ cycle' = cycle + 1
    /\ ctxDone' = FALSE
    /\ nq' = Len(Jobs)
    /\ i' = 0
    /\ errs' = << >>
    /\ ret' = NoError
    /\ job' = [g \in Goroutines |->
                 IF g[1] = cycle + 1
                 THEN (IF g[2] = Outdoor THEN "check" ELSE "query")
                 ELSE job[g]]
    /\ pc' = "select"
    /\ UNCHANGED << d, now, res, faults, mu, http >>

\* The deadline of the cycle's context passes.
Expire ==
    /\ pc \in {"select", "render"}
    /\ ~ctxDone
    /\ ctxDone' = TRUE
    /\ faults' = faults + 1
    /\ UNCHANGED << d, now, pc, cycle, nq, i, errs, ret, job, res, mu, http >>

\* A loop that takes the ctx.Done() case once and then waits for doneCh only.
SelectDoneOnce ==
    /\ pc = "select"
    /\ i < nq
    /\ ctxDone
    /\ errs = << >>
    /\ errs' = Append(errs, DeadlineExceeded)
    /\ i' = i + 1
    /\ UNCHANGED << d, now, pc, cycle, ctxDone, nq, ret, job, res, faults, mu, http >>

\* case <-ctx.Done(): errs = append(errs, ctx.Err())
SelectDone ==
    /\ pc = "select"
    /\ i < nq
    /\ ctxDone
    /\ errs' = Append(errs, DeadlineExceeded)
    /\ i' = i + 1
    /\ UNCHANGED << d, now, pc, cycle, ctxDone, nq, ret, job, res, faults, mu, http >>

\* What the job goroutine does next after its send on doneCh went through.
AfterSend(at) == IF at = "sendErr" THEN "sendNil" ELSE "exit"

\* case err := <-doneCh, meeting job j's doneCh <- fmt.Errorf("%s: %w", op, err)
RecvErr(j) ==
    /\ pc = "select"
    /\ i < nq
    /\ job[<<cycle, j>>] = "sendErr"
    /\ errs' = Append(errs, j)
    /\ i' = i + 1
    /\ job' = [job EXCEPT ![<<cycle, j>>] = AfterSend("sendErr")]
    /\ UNCHANGED << d, now, pc, cycle, ctxDone, nq, ret, res, faults, mu, http >>

\* case err := <-doneCh, meeting job j's doneCh <- nil
RecvNil(j) ==
    /\ pc = "select"
    /\ i < nq
    /\ job[<<cycle, j>>] = "sendNil"
    /\ i' = i + 1
    /\ job' = [job EXCEPT ![<<cycle, j>>] = AfterSend("sendNil")]
    /\ UNCHANGED << d, now, pc, cycle, ctxDone, nq, errs, ret, res, faults, mu, http >>

\* fmt.Errorf("%d errors: %v", len(errs), strings.Join(strs, "\n"))
CombinedError(es) == [nil |-> FALSE, n |-> Len(es), strs |-> es]

\* update leaves its loop with errors: UpdateOnce returns the wrapped error
\* without rendering; main logs it, cancels ctx and waits for the ticker.
ReturnError ==
    /\ pc = "select"
    /\ i >= nq
    /\ Len(errs) > 0
    /\ ret' = CombinedError(errs)
    /\ ctxDone' = TRUE
    /\ pc' = "loop"
    /\ UNCHANGED << d, now, cycle, nq, i, errs, job, res, faults, mu, http >>

\* update leaves its loop without errors and returns nil.
ReturnNil ==
    /\ pc = "select"
    /\ i >= nq
    /\ Len(errs) = 0
    /\ pc' = "render"
    /\ UNCHANGED << d, now, cycle, ctxDone, nq, i, errs, ret, job, res, faults, mu, http >>

\* UpdateOnce renders (d.Lock() is granted, every line is drawn) and
\* returns nil; main cancels ctx and waits.
Render ==
    /\ pc = "render"
    /\ mu = Unlocked
    /\ ~IndexOutOfRange(d)
    /\ d' = render(d)
    /\ ctxDone' = TRUE
    /\ pc' = "loop"
    /\ UNCHANGED << now, cycle, nq, i, errs, ret, job, res, faults, mu, http >>

\* UpdateOnce renders, a line cannot be drawn, and UpdateOnce returns the
\* wrapped error; main logs it, cancels ctx and waits.
RenderError == [nil |-> FALSE, n |-> 1, strs |-> << "render: draw line" >>]

RenderFail ==
    /\ pc = "render"
    /\ mu = Unlocked
    /\ {0, 1} \subseteq 0..(ScreenLen(d) - 1)
    /\ d' = renderDrawError(d)
    /\ ret' = RenderError
    /\ ctxDone' = TRUE
    /\ pc' = "loop"
    /\ UNCHANGED << now, cycle, nq, i, errs, job, res, faults, mu, http >>

\* UpdateOnce renders and render panics with an index out of range: the
\* deferred d.Unlock() runs and, nothing recovering in main's goroutine,
\* the program ends.
RenderPanic ==
    /\ pc = "render"
    /\ mu = Unlocked
    /\ IndexOutOfRange(d)
    /\ d' = renderPanic(d)
    /\ pc' = "panic"
    /\ UNCHANGED << now, cycle, ctxDone, nq, i, errs, ret, job, res, faults, mu, http >>

\* ---------------------------------------------------------------- handlers
\* ServeJSON: the lines of d.screen, read under d.RLock(), as strings.
ServeJSON ==
    /\ mu.w = NoHolder
    /\ http' = [handler |-> "ServeJSON", status |-> 200, screen |-> d.screen]
    /\ UNCHANGED << d, now, pc, cycle, ctxDone, nq, i, errs, ret, job, res,
                    faults, mu >>

\* ServeLargePNG calls enlargedImage(16, 2).
LargeEnlarge == 16
LargeSpace == 2

\* src of enlargedImage: d.image, or a new 1x1 image when d.image is nil.
Src(dd) ==
    IF dd.image.nil THEN [nil |-> FALSE, w |-> 1, h |-> 1, lines |-> << >>]
    ELSE dd.image

\* color.RGBA values: the zero value of a new image's pixels, and the two
\* opaque colors render uses.
Unset == "unset"
Colors == {"black", "white"}

\* src.At(x, y); the pixels of a new image are unset.
At(src, x, y) == IF "pix" \in DOMAIN src THEN src.pix[<< x, y >>] ELSE Unset

\* The largest of a non-empty set of integers.
Max(xs) == CHOOSE x \in xs : \A y \in xs : y <= x

\* enlargedImage with the loops over i and j running over the whole block.
enlargedImageNoSpace(dd, enlarge, space) ==
    LET src == Src(dd) IN
    [ nil |-> FALSE, w |-> enlarge * src.w, h |-> enlarge * src.h,
      pix |-> [p \in (0..(enlarge * src.w - 1)) \X (0..(enlarge * src.h - 1)) |->
                 At(src, p[1] \div enlarge, p[2] \div enlarge)] ]

\* enlargedImage, under d.RLock(): a new image enlarge times the size of
\* src in which img.Set(x*enlarge+i, y*enlarge+j, src.At(x, y)) has run for
\* x, y over src and i, j from space to enlarge-space-1, in that order:
\* a pixel holds the value of the last (x, y) that set it, if any did.
enlargedImage(dd, enlarge, space) ==
    LET src == Src(dd)
        Covers(x, q) == x * enlarge + space <= q /\ q < x * enlarge + enlarge - space
    IN [ nil |-> FALSE, w |-> enlarge * src.w, h |-> enlarge * src.h,
         pix |-> [p \in (0..(enlarge * src.w - 1)) \X (0..(enlarge * src.h - 1)) |->
                    LET xs == {x \in 0..(src.w - 1) : Covers(x, p[1])}
                        ys == {y \in 0..(src.h - 1) : Covers(y, p[2])}
                    IN IF xs = {} \/ ys = {} THEN Unset
                       ELSE At(src, Max(xs), Max(ys))] ]

\* A call of enlargedImage; the image it returns is kept as the response.
CallEnlargedImage(enlarge, space) ==
    /\ mu.w = NoHolder
    /\ http' = [handler |-> "enlargedImage", enlarge |-> enlarge,
                space |-> space, image |-> enlargedImage(d, enlarge, space)]
    /\ UNCHANGED << d, now, pc, cycle, ctxDone, nq, i, errs, ret, job, res,
                    faults, mu >>

\* ServeLargePNG that keeps the enlarged image as d.image.
ServeLargePNGInPlace ==
    /\ mu = Unlocked
    /\ d' = [d EXCEPT !.image = [Src(d) EXCEPT !.w = LargeEnlarge * @,
                                              !.h = LargeEnlarge * @]]
    /\ http' = [handler |-> "ServeLargePNG", status |-> 200,
                w |-> LargeEnlarge * Src(d).w, h |-> LargeEnlarge * Src(d).h]
    /\ UNCHANGED << now, pc, cycle, ctxDone, nq, i, errs, ret, job, res,
                    faults, mu >>

\* ServeLargePNG: enlargedImage, under d.RLock(), makes an image
\* enlarge times the size of src; it is encoded with status 200.
ServeLargePNG ==
    /\ mu.w = NoHolder
    /\ http' = [handler |-> "ServeLargePNG", status |-> 200,
                w |-> LargeEnlarge * Src(d).w, h |-> LargeEnlarge * Src(d).h]
    /\ UNCHANGED << d, now, pc, cycle, ctxDone, nq, i, errs, ret, job, res,
                    faults, mu >>

\* The extensions ServeImage tells apart; anything else is encoded as PNG.
Exts == {".png", ".bmp", ".txt"}
ContentType(ext) ==
    IF ext = ".bmp" THEN "image/bmp"
    ELSE IF ext = ".txt" THEN "text/plain"
    ELSE "image/png"

\* ServeImage without its `if d.image == nil`.
ServeImageUnchecked(ext) ==
    /\ mu = Unlocked
    /\ http' = [handler |-> "ServeImage", status |-> 200,
                contentType |-> ContentType(ext), image |-> d.image]
    /\ UNCHANGED << d, now, pc, cycle, ctxDone, nq, i, errs, ret, job, res,
                    faults, mu >>

\* ServeImage: under d.Lock(), an error when d.image is nil, else d.image
\* is encoded into buf; the error is answered with http.Error and status
\* 500, the encoding is copied to the client with status 200.
ServeImage(ext) ==
    /\ mu = Unlocked
    /\ http' = IF d.image.nil
               THEN [handler |-> "ServeImage", status |-> 500,
                     contentType |-> "text/plain; charset=utf-8",
                     image |-> NilImage]
               ELSE [handler |-> "ServeImage", status |-> 200,
                     contentType |-> ContentType(ext), image |-> d.image]
    /\ UNCHANGED << d, now, pc, cycle, ctxDone, nq, i, errs, ret, job, res,
                    faults, mu >>

\* The response the weather station gives in cycle c: the cycle's reading,
\* taken a minute ago.
CycleResponses(c) ==
    { Result([scale |-> 1, data |-> << << [num |-> TRUE, v |-> c] >> >>], << now - 1 >>) }

\* The responses the weather station may give at any time: a series of up
\* to MaxLen raw samples with its scale factor (or no data at all), and one
\* time per sample, which is the zero time or the minute the sample is from
\* (the last sample a minute ago, the one before two minutes ago, ...).
Scales == {1, 2}
SampleTimes(len) ==
    { times \in [1..len -> {ZeroTime} \cup {now - x : x \in 1..len}] :
        \A x \in 1..len : times[x] \in {ZeroTime, now - (len + 1 - x)} }
Responses ==
    { Result([scale |-> 1, data |-> << >>], << >>) } \cup
    UNION { { Result([scale |-> sc, data |-> << first >>], times)
                : sc \in Scales, times \in SampleTimes(Len(first)) }
            : first \in RawSeries(MaxLen) }

\* ----------------------------------------------------------- specifications
\* update's loop over doneCh and ctx.Done(), and what follows it in UpdateOnce.
Collect ==
    \/ \E j \in JobNames : RecvErr(j)
    \/ \E j \in JobNames : RecvNil(j)
    \/ ReturnError
    \/ ReturnNil
    \/ Render

\* The steps of the time-series jobs that do not fail.
Influx ==
    \/ \E c \in Cycles, j \in InfluxJobs : QueryOK(c, j)
    \/ \E c \in Cycles, j \in JobNames : Lock(c, j)
    \/ \E c \in Cycles, j \in InfluxJobs : Assign(c, j)

\* A fetch fails, at most `budget` times in a run.
Fail(budget) ==
    /\ faults < budget
    /\ \/ \E c \in Cycles, j \in InfluxJobs : QueryFail(c, j)
       \/ \E c \in Cycles : MesonetFail(c)

\* One call of UpdateOnce by main (the first cycle), its deadline included,
\* with up to MaxFaults faults.
Next ==
    \/ cycle < 1 /\ StartCycle
    \/ faults < MaxFaults /\ Expire
    \/ SelectDone
    \/ Collect
    \/ Influx
    \/ \E c \in Cycles : RLock(c)
    \/ \E c \in Cycles : RateCheck(c)
    \/ \E c \in Cycles : MesonetOK(c, CycleResponses(c))
    \/ \E c \in Cycles : WriteOutdoor(c)
    \/ Fail(MaxFaults)

Spec == Init /\ [][Next]_vars

\* The refresh loop of main over MaxCycles cycles none of whose deadlines
\* passes, with up to LoopFaults failing fetches.
NextLoop ==
    \/ cycle < MaxCycles /\ StartCycle
    \/ Collect
    \/ Influx
    \/ \E c \in Cycles : RLock(c)
    \/ \E c \in Cycles : RateCheck(c)
    \/ \E c \in Cycles : MesonetOK(c, CycleResponses(c))
    \/ \E c \in Cycles : WriteOutdoor(c)
    \/ Fail(LoopFaults)

SpecLoop == Init /\ [][NextLoop]_vars

\* One call of UpdateOnce by main and what is sure to happen in it:
\* context.WithTimeout makes ctx.Done() ready once the interval has passed,
\* a select with a ready case goes on, and the goroutine that runs update is
\* scheduled.  Nothing is assumed of the jobs: a fetch may take for ever.
NextLive ==
    \/ cycle < 1 /\ StartCycle
    \/ Expire
    \/ SelectDone
    \/ Collect
    \/ Influx
    \/ \E c \in Cycles : RLock(c)
    \/ \E c \in Cycles : RateCheck(c)
    \/ \E c \in Cycles : MesonetOK(c, CycleResponses(c))
    \/ \E c \in Cycles : WriteOutdoor(c)
    \/ Fail(LoopFaults)

SpecLive ==
    /\ Init
    /\ [][NextLive]_vars
    /\ WF_vars(Expire)
    /\ WF_vars(SelectDone)
    /\ WF_vars(ReturnError \/ ReturnNil)

\* updateOutdoorTemperature on its own: called again and again with a live
\* context while the clock runs and the station answers with any response
\* or, up to MaxFaults times, with a failure.
OutdoorJob == << 1, Outdoor >>

CallOutdoor ==
    /\ job[OutdoorJob] = "none"
    /\ job' = [job EXCEPT ![OutdoorJob] = "check"]
    /\ UNCHANGED << d, now, pc, cycle, ctxDone, nq, i, errs, ret, res, faults, mu, http >>

\* The call has returned (nil or an error); its res is gone.
ReturnOutdoor ==
    /\ job[OutdoorJob] \in {"sendNil", "sendErr"}
    /\ job' = [job EXCEPT ![OutdoorJob] = "none"]
    /\ res' = [res EXCEPT ![1] = NoResult]
    /\ UNCHANGED << d, now, pc, cycle, ctxDone, nq, i, errs, ret, faults, mu, http >>

\* A minute passes.
Tick ==
    /\ now < StartNow + MaxTicks
    /\ now' = now + 1
    /\ UNCHANGED << d, pc, cycle, ctxDone, nq, i, errs, ret, job, res, faults, mu, http >>

NextOutdoor ==
    \/ CallOutdoor
    \/ RLock(1)
    \/ RateCheck(1)
    \/ MesonetOK(1, Responses)
    \/ faults < MaxFaults /\ MesonetFail(1)
    \/ Lock(1, Outdoor)
    \/ WriteOutdoor(1)
    \/ ReturnOutdoor
    \/ Tick

SpecOutdoor == Init /\ [][NextOutdoor]_vars

\* render on its own: update has just returned nil in the first cycle and
\* the snapshot holds any values of the grid; a trailing mean may also be
\* +Inf or NaN.
Grid == {[k |-> "fin", n |-> x, d |-> 2] : x \in -MaxHalves..MaxHalves}
Means == Grid \cup {PosInf, NaN}

InitRender ==
    /\ d \in { [NewDisplay EXCEPT !.Temperature = v[1],
                                   !.LastHourTemperature = v[2],
                                   !.RelativeHumidity = v[3],
                                   !.LastHourRelativeHumidity = v[4],
                                   !.OutdoorTemperature = v[5],
                                   !.LastHourOutdoorTemperature = v[6]]
                : v \in Grid \X Means \X Grid \X Means \X Grid \X Means }
    /\ now = StartNow
    /\ pc = "render"
    /\ cycle = 1
    /\ ctxDone = FALSE
    /\ nq = Len(Jobs)
    /\ i = Len(Jobs)
    /\ errs = << >>
    /\ ret = NoError
    /\ job = [g \in Goroutines |-> IF g[1] = 1 THEN "exit" ELSE "none"]
    /\ res = [c \in Cycles |-> NoResult]
    /\ faults = 0
    /\ mu = Unlocked
    /\ http = NoResponse

NextRender == Render

SpecRender == InitRender /\ [][NextRender]_vars

\* render on its own for any configured height up to MaxHeight.
InitHeight ==
    /\ d \in { [NewDisplay EXCEPT !.outputConfig.Height = h, !.Temperature = t]
                : h \in 0..MaxHeight, t \in Grid }
    /\ now = StartNow
    /\ pc = "render"
    /\ cycle = 1
    /\ ctxDone = FALSE
    /\ nq = Len(Jobs)
    /\ i = Len(Jobs)
    /\ errs = << >>
    /\ ret = NoError
    /\ job = [g \in Goroutines |-> IF g[1] = 1 THEN "exit" ELSE "none"]
    /\ res = [c \in Cycles |-> NoResult]
    /\ faults = 0
    /\ mu = Unlocked
    /\ http = NoResponse

NextHeight ==
    \/ Render
    \/ RenderFail
    \/ RenderPanic

SpecHeight == InitHeight /\ [][NextHeight]_vars

\* enlargedImage on its own: d.image is nil or any image of up to MaxDim by
\* MaxDim opaque pixels, and the function is called with ServeLargePNG's
\* arguments or with any factor up to MaxEnlarge and any space from 0 on.
Images ==
    UNION { { [nil |-> FALSE, w |-> w, h |-> h, pix |-> pix]
                : pix \in [(0..(w - 1)) \X (0..(h - 1)) -> Colors] }
            : << w, h >> \in (1..MaxDim) \X (1..MaxDim) }

InitEnlarge ==
    /\ d \in {[NewDisplay EXCEPT !.image = img] : img \in Images \cup {NilImage}}
    /\ now = StartNow
    /\ pc = "loop"
    /\ cycle = 0
    /\ ctxDone = FALSE
    /\ nq = 0
    /\ i = 0
    /\ errs = << >>
    /\ ret = NoError
    /\ job = [g \in Goroutines |-> "none"]
    /\ res = [c \in Cycles |-> NoResult]
    /\ faults = 0
    /\ mu = Unlocked
    /\ http = NoResponse

\* One call of enlargedImage on the published image: with the arguments of
\* ServeLargePNG, or with any small ones.  (The result of a call depends on
\* its arguments and d.image only, and the call leaves d as it was.)
NextEnlarge ==
    \/ http = NoResponse /\ CallEnlargedImage(LargeEnlarge, LargeSpace)
    \/ /\ http = NoResponse
       /\ \E enlarge \in 1..MaxEnlarge, space \in 0..MaxEnlarge :
            CallEnlargedImage(enlarge, space)

SpecEnlarge == InitEnlarge /\ [][NextEnlarge]_vars

\* The refresh loop of main over MaxCycles cycles in which no fetch fails and
\* no deadline passes, a render may fail, and the handlers are called at any
\* time.
NextServe ==
    \/ cycle < MaxCycles /\ StartCycle
    \/ \E c \in Cycles, j \in InfluxJobs : QueryOK(c, j)
    \/ \E c \in Cycles, j \in JobNames : Lock(c, j)
    \/ \E c \in Cycles, j \in InfluxJobs : Assign(c, j)
    \/ \E c \in Cycles : RLock(c)
    \/ \E c \in Cycles : RateCheck(c)
    \/ \E c \in Cycles : MesonetOK(c, CycleResponses(c))
    \/ \E c \in Cycles : WriteOutdoor(c)
    \/ \E j \in JobNames : RecvNil(j)
    \/ ReturnNil
    \/ Render
    \/ RenderFail
    \/ ServeJSON
    \/ \E ext \in Exts : ServeImage(ext)
    \/ ServeLargePNG

SpecServe == Init /\ [][NextServe]_vars

\* ------------------------------------------------------------------ claims
Range(f) == {f[x] : x \in DOMAIN f}

\* update returns in this step: with an error, or with nil.
UpdateReturns == pc = "select" /\ pc' # "select"
UpdateReturnsError == pc = "select" /\ pc' = "loop"

\* Job j of the current cycle: its f has returned; it has returned an error
\* (waiting to send it, or update has received it); update has received
\* something from it.
Finished(j) == job[<<cycle, j>>] \in {"sendErr", "sendNil", "exit"}
Failed(j) == job[<<cycle, j>>] = "sendErr" \/ j \in Range(errs)
Reported(j) == job[<<cycle, j>>] = "exit" \/ j \in Range(errs)
FailedJobs == {j \in JobNames : Failed(j)}

\* How often message m is in the combined error.
Occurrences(strs, m) == Cardinality({x \in DOMAIN strs : strs[x] = m})

\* The snapshot holds what job j fetched in the current cycle.
HoldsCycleValue(j) ==
    IF j = Outdoor THEN d.OutdoorTemperature = Fin(cycle)
    ELSE d[Target(j)] = InfluxValue(cycle)

\* C1: whenever update returns before its context is done, each of the five
\* jobs of the cycle has finished its fetch function.
C1_AllFetchedAtReturn ==
    [][(UpdateReturns /\ ~ctxDone) => \A j \in JobNames : Finished(j)]_vars

\* C2: whenever update returns, with or without an error, UpdateOnce goes on
\* to render.
C2_RenderAfterEveryUpdate ==
    [][UpdateReturns => pc' = "render"]_vars

\* C3: in no state does the snapshot hold a current value and a trailing
\* mean of the same measurement that stem from different cycles (the indoor
\* readings of a cycle are equal, so an indoor pair must be equal; the
\* outdoor pair is either untouched or written).
C3_NoTornPair ==
    /\ d.Temperature = d.LastHourTemperature
    /\ d.RelativeHumidity = d.LastHourRelativeHumidity
    /\ (d.OutdoorTemperature = Fin(0)) <=> (d.LastHourOutdoorTemperature = Fin(0))

SnapshotFields ==
    { "Temperature", "LastHourTemperature", "RelativeHumidity",
      "LastHourRelativeHumidity", "OutdoorTemperature",
      "LastHourOutdoorTemperature", "MesonetLastData" }

OutdoorFields ==
    {"OutdoorTemperature", "LastHourOutdoorTemperature", "MesonetLastData"}

\* How the snapshot is written: every step that changes it is either one
\* time-series job writing the one field that is its target, or the outdoor
\* job writing the current outdoor value, its trailing mean and the data
\* time together, all three computed from the same response.
FieldsWrittenPerJob ==
    [][LET changed == {f \in SnapshotFields : d'[f] # d[f]} IN
       \/ changed = {}
       \/ \E c \in Cycles, j \in InfluxJobs :
            /\ changed = {Target(j)}
            /\ job[<<c, j>>] = "locked" /\ job'[<<c, j>>] = "sendNil"
       \/ \E c \in Cycles :
            /\ changed \subseteq OutdoorFields
            /\ job[<<c, Outdoor>>] = "locked" /\ job'[<<c, Outdoor>>] = "sendNil"
            /\ d'.OutdoorTemperature = Fin(Totals(res[c]).last)
            /\ d'.LastHourOutdoorTemperature =
                 FloatDiv(Totals(res[c]).sum, Totals(res[c]).n)
            /\ d'.MesonetLastData = Totals(res[c]).lastUpdate
      ]_vars

\* C4: when update returns an error and the context has not expired, the
\* combined error counts the jobs that failed and holds exactly one message
\* for each of them.
C4_EveryFailureReported ==
    [][(UpdateReturnsError /\ ~ctxDone) =>
         /\ ret'.n = Cardinality(FailedJobs)
         /\ Len(ret'.strs) = Cardinality(FailedJobs)
         /\ \A j \in FailedJobs : Occurrences(ret'.strs, j) = 1]_vars

\* C5: when update returns, the context has not expired, one job has failed
\* and the other four have fetched successfully, the snapshot holds the four
\* values fetched in this cycle and the error reports that one job.
C5_OneFailureOthersWritten ==
    [][(/\ UpdateReturnsError /\ ~ctxDone
        /\ Cardinality(FailedJobs) = 1
        /\ \A j \in JobNames \ FailedJobs :
             job[<<cycle, j>>] \in {"lock", "locked", "sendNil", "exit"})
       => /\ ret'.n = 1
          /\ \A j \in FailedJobs : ret'.strs = << j >>
          /\ \A j \in JobNames \ FailedJobs : HoldsCycleValue(j)]_vars

\* C6: when the loop starts the next cycle, every job goroutine of the
\* cycle before has exited.
C6_NoJobOutlivesItsCycle ==
    [][cycle' = cycle + 1 =>
         \A c \in Cycles, j \in JobNames : c = cycle => job[<<c, j>>] = "exit"]_vars

\* C7: when update returns after its context has expired, the combined error
\* holds as many deadline errors as there are jobs update heard nothing from.
C7_DeadlineErrorPerSilentJob ==
    [][(UpdateReturnsError /\ ctxDone) =>
         Occurrences(errs, DeadlineExceeded)
           = Cardinality({j \in JobNames : ~Reported(j)})]_vars

\* The samples of a series that are not zero, and their sum.
NonZero(tair) == {x \in DOMAIN tair : tair[x] # 0}

RECURSIVE SumOver(_, _)
SumOver(tair, xs) ==
    IF xs = {} THEN 0
    ELSE LET x == CHOOSE y \in xs : TRUE IN tair[x] + SumOver(tair, xs \ {x})

Last(xs) == CHOOSE x \in xs : \A y \in xs : y <= x

\* The outdoor job of cycle c takes the step that writes the snapshot.
OutdoorWrites(c) ==
    job[<<c, Outdoor>>] = "locked" /\ job'[<<c, Outdoor>>] = "sendNil"

\* C8: an outdoor job that finds the stored data time less than six minutes
\* old makes no network call, returns nil and changes nothing; and the data
\* time is only ever set to a time of the response (or the zero time), never
\* to the time of the attempt.
C8_FreshDataSkipsFetch ==
    [][\A c \in Cycles :
         /\ ( /\ job[<<c, Outdoor>>] = "rlocked"
              /\ job'[<<c, Outdoor>>] # "rlocked"
              /\ now - d.MesonetLastData < SixMinutes )
            => job'[<<c, Outdoor>>] = "sendNil" /\ d' = d /\ res' = res
         /\ OutdoorWrites(c) =>
              d'.MesonetLastData \in Range(res[c].time) \cup {ZeroTime}]_vars

\* C8 witness: a call has returned nil without a response (res is empty)
\* while the stored data time is fresh.
C8_Witness ==
    /\ job[OutdoorJob] = "sendNil"
    /\ res[1] = NoResult
    /\ d.MesonetLastData # ZeroTime
    /\ now - d.MesonetLastData < SixMinutes

\* C9: after a fetch whose series has a non-zero sample, the stored trailing
\* mean is the sum of the non-zero samples over their number.
C9_MeanOfNonZeroSamples ==
    [][\A c \in Cycles :
         (OutdoorWrites(c) /\ NonZero(res[c].tair) # {}) =>
            LET nz == NonZero(res[c].tair)
                mean == d'.LastHourOutdoorTemperature
            IN /\ mean.k = "fin"
               /\ mean.n * Cardinality(nz) = SumOver(res[c].tair, nz) * mean.d]_vars

\* C10: after a fetch whose series has a non-zero sample, the stored latest
\* value is the last non-zero sample, and the stored data time is the time of
\* a non-zero sample: that of the last one unless it is the zero time.
C10_LatestIsLastNonZero ==
    [][\A c \in Cycles :
         (OutdoorWrites(c) /\ NonZero(res[c].tair) # {}) =>
            LET tair == res[c].tair
                time == res[c].time
                nz == NonZero(tair)
            IN /\ d'.OutdoorTemperature = Fin(tair[Last(nz)])
               /\ \E x \in nz : d'.MesonetLastData = time[x]
               /\ time[Last(nz)] # ZeroTime =>
                    d'.MesonetLastData = time[Last(nz)]]_vars

\* C10 witness: a written series that ends in a zero sample behind a non-zero
\* one whose value and time are the ones stored.
C10_Witness ==
    /\ job[OutdoorJob] = "sendNil"
    /\ Len(res[1].tair) >= 2
    /\ res[1].tair[Len(res[1].tair)] = 0
    /\ res[1].tair[Len(res[1].tair) - 1] # 0
    /\ res[1].time[Len(res[1].tair)] # ZeroTime
    /\ res[1].time[Len(res[1].tair) - 1] # ZeroTime
    /\ res[1].time[Len(res[1].tair)] # res[1].time[Len(res[1].tair) - 1]
    /\ d.OutdoorTemperature = Fin(res[1].tair[Len(res[1].tair) - 1])
    /\ d.MesonetLastData = res[1].time[Len(res[1].tair) - 1]

\* C16: a job goroutine holds the write lock only between its d.Lock() and
\* its assignment, and the read lock only for the read of MesonetLastData;
\* in particular no job holds either while its network call is in progress.
C16_NoLockDuringNetworkCall ==
    \A g \in Goroutines :
       /\ mu.w = g => job[g] = "locked"
       /\ g \in mu.r => job[g] = "rlocked"
       /\ job[g] = "query" => mu.w # g /\ g \notin mu.r

\* C16 witness: one job holds the write lock for its assignment while the
\* network calls of two other jobs, the outdoor one included, are running.
C16_Witness ==
    /\ mu.w = <<1, "get temperature">>
    /\ job[<<1, "get relative humidity">>] = "query"
    /\ job[<<1, Outdoor>>] = "query"

\* The change byte render has put behind a value: the last byte of line 2,
\* the last byte of line 1, the byte behind the temperature in line 1.
TempGlyph == d.screen[1][Len(Sprintf(1, d.Temperature)) + 1]
HumGlyph == d.screen[1][Len(d.screen[1])]
OutdoorGlyph == d.screen[2][Len(d.screen[2])]

\* The trend of a current value against a trailing mean for the threshold
\* tn/2, computed on the numbers themselves: falling (25) when
\* current - mean < -tn/2, rising (24) when current - mean > tn/2, flat (32)
\* when |current - mean| <= tn/2; an infinite mean is infinitely far above.
Trend(current, mean, tn) ==
    IF mean.k = "inf" THEN 25
    ELSE LET num == 2 * (current.n * mean.d - mean.n * current.d)
             den == current.d * mean.d
         IN IF num < -tn * den THEN 25
            ELSE IF num > tn * den THEN 24
            ELSE 32

\* C11: in every rendered screen the three change bytes are the trend of the
\* measurement's current value against its trailing mean, with threshold
\* 1/2 for temperature and humidity and 1 for the outdoor temperature (a
\* NaN difference, of which the claim says nothing, is left out).
C11_TrendGlyphs ==
    (pc = "loop" /\ d.screen # << >>) =>
       /\ d.LastHourTemperature.k # "nan" =>
            TempGlyph = Trend(d.Temperature, d.LastHourTemperature, 1)
       /\ d.LastHourRelativeHumidity.k # "nan" =>
            HumGlyph = Trend(d.RelativeHumidity, d.LastHourRelativeHumidity, 1)
       /\ d.LastHourOutdoorTemperature.k # "nan" =>
            OutdoorGlyph =
              Trend(d.OutdoorTemperature, d.LastHourOutdoorTemperature, 2)

\* C11 witness: a rendered screen with the temperature exactly 1/2 below
\* its mean (flat), the humidity 1 above (rising) and the outdoor
\* temperature exactly 1 above its mean (flat).
C11_Witness ==
    /\ pc = "loop" /\ d.screen # << >>
    /\ d.Temperature = [k |-> "fin", n |-> 0, d |-> 2]
    /\ d.LastHourTemperature = [k |-> "fin", n |-> 1, d |-> 2]
    /\ d.RelativeHumidity = [k |-> "fin", n |-> 1, d |-> 2]
    /\ d.LastHourRelativeHumidity = [k |-> "fin", n |-> -1, d |-> 2]
    /\ d.OutdoorTemperature = [k |-> "fin", n |-> 2, d |-> 2]
    /\ d.LastHourOutdoorTemperature = [k |-> "fin", n |-> 0, d |-> 2]
    /\ TempGlyph = 32 /\ HumGlyph = 24 /\ OutdoorGlyph = 32

\* A request is answered by the handler in this step.
Answers(handler) == http' # http /\ http'.handler = handler

\* render runs in this step, and runs without an error, with one.
RenderRuns == pc = "render" /\ pc' = "loop"
RenderSucceeds == RenderRuns /\ ret'.nil
RenderFails == RenderRuns /\ ~ret'.nil

\* Line 1 and line 2 as the claims describe them: the temperature with one
\* decimal, its trend, a space, the humidity without decimals, its trend;
\* the outdoor temperature with one decimal, its trend.
Line1(dd) ==
    Sprintf(1, dd.Temperature)
      \o << Trend(dd.Temperature, dd.LastHourTemperature, 1), 32 >>
      \o Sprintf(0, dd.RelativeHumidity)
      \o << Trend(dd.RelativeHumidity, dd.LastHourRelativeHumidity, 1) >>
Line2(dd) ==
    Sprintf(1, dd.OutdoorTemperature)
      \o << Trend(dd.OutdoorTemperature, dd.LastHourOutdoorTemperature, 2) >>

\* C12: once a render has succeeded, ServeJSON answers with exactly two
\* strings.
C12_ExactlyTwoStrings ==
    [][(Answers("ServeJSON") /\ ~d.image.nil) => Len(http'.screen) = 2]_vars

\* C12 as amended: a successful render leaves a screen of Height/8 = 4
\* lines, line 1 and line 2 followed by empty lines only, and once a render
\* has succeeded ServeJSON answers with the 4 lines of the screen: two
\* non-empty strings followed by two empty ones.
C12_TwoLinesThenEmpty ==
    [][/\ RenderSucceeds =>
            d'.screen = << Line1(d), Line2(d), << >>, << >> >>
       /\ (Answers("ServeJSON") /\ ~d.image.nil) =>
            /\ http'.screen = d.screen
            /\ Len(http'.screen) = 4
            /\ http'.screen[1] # << >> /\ http'.screen[2] # << >>
            /\ http'.screen[3] = << >> /\ http'.screen[4] = << >>]_vars

\* C12 witness: ServeJSON has answered with the screen of a successful
\* render.
C12_Witness ==
    /\ http.handler = "ServeJSON"
    /\ ~d.image.nil
    /\ http.screen = d.image.lines
    /\ Len(http.screen) = 4

\* C13: a render that fails after one has succeeded changes neither the
\* text lines nor the image: both stay those of the last successful render.
C13_FailedRenderChangesNothing ==
    [][(RenderFails /\ ~d.image.nil) =>
         /\ d'.image = d.image
         /\ d'.screen = d.screen
         /\ d'.screen = d'.image.lines]_vars

\* C15: ServeImage, for each extension, answers with status 500 and no
\* image when d.image is nil, and with status 200, the content type of the
\* extension and d.image when a render has succeeded.
C15_NoImageNoAnswer ==
    [][Answers("ServeImage") =>
         /\ d.image.nil =>
              http'.status = 500 /\ http'.image.nil
         /\ ~d.image.nil =>
              /\ http'.status = 200 /\ http'.image = d.image
              /\ http'.contentType \in {ContentType(e) : e \in Exts}]_vars

\* C15 witness: a request was answered with 500 after a render had failed
\* and before any had succeeded.
C15_Witness ==
    /\ http.handler = "ServeImage" /\ http.status = 500
    /\ d.image.nil /\ d.screen # << >>

\* C18: the text lines and the image are changed by render only, and a
\* step that answers a request changes nothing of the Display.
C18_OnlyRenderPublishes ==
    [][/\ (d'.screen # d.screen \/ d'.image # d.image) => RenderRuns
       /\ http' # http => d' = d]_vars

\* C18 witness: in the second cycle a job has written its field, the screen
\* and the image are still those of the first cycle's render, and ServeJSON
\* has answered with them.
C18_Witness ==
    /\ cycle = 2 /\ pc = "select"
    /\ d.Temperature = InfluxValue(2)
    /\ ~d.image.nil /\ d.image.lines = d.screen
    /\ http.handler = "ServeJSON" /\ http.screen = d.screen

\* C14: the image enlargedImage returns for the factor f and the margin
\* m >= 0 is f times as wide and as high as the source (1x1 and unset when
\* d.image is nil); its pixel (x*f+i, y*f+j), for i and j in 0..f-1, is the
\* source pixel (x, y) when m <= i < f-m and m <= j < f-m and unset
\* otherwise; and the call leaves the Display as it was.
C14_EnlargedBlocks ==
    [][Answers("enlargedImage") =>
         LET f == http'.enlarge
             m == http'.space
             img == http'.image
             W == IF d.image.nil THEN 1 ELSE d.image.w
             H == IF d.image.nil THEN 1 ELSE d.image.h
         IN /\ d' = d
            /\ img.w = f * W /\ img.h = f * H
            /\ DOMAIN img.pix = (0..(f * W - 1)) \X (0..(f * H - 1))
            /\ \A x \in 0..(W - 1), y \in 0..(H - 1), ii \in 0..(f - 1),
                  jj \in 0..(f - 1) :
                  img.pix[<< x * f + ii, y * f + jj >>] =
                    IF m <= ii /\ ii < f - m /\ m <= jj /\ jj < f - m
                    THEN (IF d.image.nil THEN Unset ELSE d.image.pix[<< x, y >>])
                    ELSE Unset]_vars

\* C14 witness: a 1x1 white source enlarged with f = 16 and m = 2: the
\* pixels with both indices in 2..13 are white, the others unset.
C14_Witness ==
    /\ http.handler = "enlargedImage"
    /\ http.enlarge = 16 /\ http.space = 2
    /\ ~d.image.nil /\ d.image.w = 1 /\ d.image.h = 1
    /\ d.image.pix[<< 0, 0 >>] = "white"
    /\ http.image.w = 16 /\ http.image.h = 16
    /\ \A p \in (0..15) \X (0..15) :
         http.image.pix[p] =
           IF p[1] \in 2..13 /\ p[2] \in 2..13 THEN "white" ELSE Unset

\* The snapshot fields job j assigns.
JobFields(j) == IF j = Outdoor THEN OutdoorFields ELSE {Target(j)}

UpdateReturnsNil == pc = "select" /\ pc' = "render"

\* C20: when update returns nil, all five jobs of the cycle have returned
\* without an error, and the temperature and humidity values, current and
\* trailing mean, that the render that follows reads are the ones written
\* in this cycle.
C20_NilMeansWrittenThisCycle ==
    [][UpdateReturnsNil =>
         /\ \A j \in JobNames : job[<<cycle, j>>] = "exit" /\ ~Failed(j)
         /\ \A j \in InfluxJobs : d[Target(j)] = InfluxValue(cycle)]_vars

\* C19: in every cycle update returns once it has been called, whatever
\* the jobs do, given that the cycle's deadline passes sooner or later: it
\* does not wait for ever for a job that never reports.
C19_UpdateEventuallyReturns == (pc = "select") ~> (pc # "select")

\* update has returned in a cycle none of whose jobs has reported anything:
\* all five entries of its error are the deadline's.
C19_Witness ==
    /\ pc = "loop" /\ cycle >= 1
    /\ ret = CombinedError([k \in 1..Len(Jobs) |-> DeadlineExceeded])
    /\ \A j \in InfluxJobs : job[<<cycle, j>>] = "query"
    /\ job[<<cycle, Outdoor>>] = "check"

\* Goroutine g is in one of its two sends on doneCh.
Sending(g) == job[g] \in {"sendErr", "sendNil"}

\* The call of update that made g's doneCh has returned.
UpdateGone(g) == g[1] < cycle \/ pc # "select"

\* doneCh belongs to one call of update: once that call has returned, a
\* goroutine in a send on it stays in that send whatever happens.
SendNeedsUpdate ==
    [][\A g \in Goroutines : (Sending(g) /\ UpdateGone(g)) => job'[g] = job[g]]_vars

\* C21: no job goroutine is left blocked in a send on doneCh once update
\* has returned, so that every goroutine update started exits in the end,
\* whether its job succeeded, failed or reported after the deadline.
C21_NoJobLeftSending ==
    \A g \in Goroutines : Sending(g) => ~UpdateGone(g)

\* C22: with a configured height of 16 or more render never runs into an
\* index out of range: every index it uses on the text-line slice, the
\* draw loop's i/8 for i = 0, 8, 16, ... below the height included, is
\* smaller than the slice's length floor(Height/8).
C22_NoIndexOutOfRange ==
    [][(pc = "render" /\ pc' # "render" /\ d.outputConfig.Height >= 16) =>
         /\ Len(d'.screen) = d.outputConfig.Height \div 8
         /\ pc' # "panic"
         /\ ret'.nil => \A x \in IndexesUsed(d) : x < Len(d'.screen)]_vars

====
